---- MODULE Spec2Model ----
(***************************************************************************)
(* Model of the tunnel-multiplexing server of usocks (src/src/server.py):  *)
(* the TunnelServer event loop, its registry (record_layers, frontends),    *)
(* its pending-write set (unfinished) and the lifecycle of the virtual      *)
(* connections driven by SYN/DAT/FIN/RST packets and by frontend events.    *)
(*                                                                          *)
(* Each step of the model is one call of a handler of the event loop:       *)
(* select, _process_backend, _process_record_layer, _process_packet,        *)
(* _process_frontend, _process_sending, and the teardown at the end of      *)
(* run().  The position in the loop is kept in pc, rq, wq, cur, pending.    *)
(* What the collaborators return (record layer, frontends, the frontend     *)
(* factory, select) is chosen nondeterministically.                         *)
(***************************************************************************)
EXTENDS Integers, Sequences, FiniteSets, TLC

\* ------------------------------------------------------------------ bounds
\* record-layer objects that can be referenced at the same time
MaxRL == 2
\* frontend objects that can be referenced at the same time
MaxFronts == 2
\* connection ids 1..MaxId
MaxId == 2

\* ----------------------------------------------------------------- objects
RLs == {<<"rl", i>> : i \in 1..MaxRL}
Fronts == {<<"fe", i>> : i \in 1..MaxFronts}
Backend == <<"backend", 0>>
Ids == 1..MaxId
Unavailable == <<"unavailable", 0>>
NoConn == <<"none", 0>>

\* isinstance(conn, record.RecordLayer)
IsRecordLayer(conn) == conn[1] = "rl"

\* StatusControl bits, a control byte is the set of the bits that are set
Flags == {"syn", "dat", "fin", "rst"}
Payloads == {"hi"}

\* the packets a peer can send: payload bytes only with DAT
Packets ==
    {[control |-> c, conn_id |-> i, data |-> d] :
        c \in (SUBSET Flags) \ {{}}, i \in Ids, d \in Payloads}

\* the errors receive_packets raises (subclasses of CriticalException)
CriticalKinds == {"HashfailError", "InvalidHeaderError", "RemoteResetException",
                  "InsecureClosingError", "CriticalException"}

\* ------------------------------------------------------------ dictionaries
EmptyDict == [x \in {} |-> NoConn]
DictDel(d, k) == [x \in (DOMAIN d) \ {k} |-> d[x]]
DictSet(d, k, v) == [x \in (DOMAIN d) \cup {k} |-> IF x = k THEN v ELSE d[x]]
Values(d) == {d[x] : x \in DOMAIN d}

\* -------------------------------------------------------------------- state
VARIABLES
    record_layers,  \* self.record_layers: record layer -> (conn id -> frontend)
    frontends,      \* self.frontends: frontend -> <<conn id, record layer>>
    unfinished,     \* self.unfinished: connections waiting for sending
    running,        \* self.running
    pc,             \* "select", "dispatch", "packets", "done"
    rq,             \* the part of select's r not yet handled
    wq,             \* the part of select's w not yet handled
    cur,            \* the record layer whose batch is being applied
    pending,        \* 1 while a packet of the batch is still to be applied
    fstate,         \* frontend object -> "unborn", "open", "closed"
    rlstate         \* record layer object -> "unborn", "live", "closed"

vars == <<record_layers, frontends, unfinished, running, pc, rq, wq, cur, pending,
          fstate, rlstate>>

\* the part of the state the handlers work on, with the calls they make on
\* the collaborators (ops), the packets they hand to send_packet (sent) and the
\* exception they raise (exc)
Cur ==
    [record_layers |-> record_layers, frontends |-> frontends,
     unfinished |-> unfinished, fstate |-> fstate, rlstate |-> rlstate,
     ops |-> <<>>, sent |-> <<>>, exc |-> "none"]

\* a call on a collaborator: its name, the object, the bytes passed, the result
Op(name, obj, data, res) == [op |-> name, obj |-> obj, data |-> data, res |-> res]
Call(s, name, obj, data, res) ==
    [s EXCEPT !.ops = Append(@, Op(name, obj, data, res))]
Raise(s, e) == [s EXCEPT !.exc = e]

\* ----------------------------------------------------------------- handlers

\* _close_frontend without "del self.frontends[front]"
Mutant_close_frontend_keeps_entry(s, front, reset) ==
    LET s1 == [Call(s, IF reset THEN "reset" ELSE "close", front, "", "")
                  EXCEPT !.fstate[front] = "closed"]
    IN  IF front \notin DOMAIN s1.frontends THEN Raise(s1, "KeyError")
        ELSE LET conn_id == s1.frontends[front][1]
                 conn == s1.frontends[front][2]
             IN  IF conn \notin DOMAIN s1.record_layers THEN Raise(s1, "KeyError")
                 ELSE IF conn_id \notin DOMAIN s1.record_layers[conn]
                 THEN Raise(s1, "KeyError")
                 ELSE [s1 EXCEPT !.record_layers[conn] = DictDel(@, conn_id)]

\* _close_frontend calling front.close() whatever reset is
Mutant_close_frontend_never_resets(s, front, reset) ==
    LET s1 == [Call(s, "close", front, "", "") EXCEPT !.fstate[front] = "closed"]
    IN  IF front \notin DOMAIN s1.frontends THEN Raise(s1, "KeyError")
        ELSE LET conn_id == s1.frontends[front][1]
                 conn == s1.frontends[front][2]
                 s2 == [s1 EXCEPT !.frontends = DictDel(@, front)]
             IN  IF conn \notin DOMAIN s2.record_layers THEN Raise(s2, "KeyError")
                 ELSE IF conn_id \notin DOMAIN s2.record_layers[conn]
                 THEN Raise(s2, "KeyError")
                 ELSE [s2 EXCEPT !.record_layers[conn] = DictDel(@, conn_id)]

\* _close_frontend that removes the id from the id map of every record layer
Mutant_close_frontend_every_owner(s, front, reset) ==
    LET s1 == [Call(s, IF reset THEN "reset" ELSE "close", front, "", "")
                  EXCEPT !.fstate[front] = "closed"]
    IN  IF front \notin DOMAIN s1.frontends THEN Raise(s1, "KeyError")
        ELSE LET conn_id == s1.frontends[front][1]
                 conn == s1.frontends[front][2]
                 s2 == [s1 EXCEPT !.frontends = DictDel(@, front)]
             IN  IF conn \notin DOMAIN s2.record_layers THEN Raise(s2, "KeyError")
                 ELSE IF conn_id \notin DOMAIN s2.record_layers[conn]
                 THEN Raise(s2, "KeyError")
                 ELSE [s2 EXCEPT !.record_layers =
                          [c \in DOMAIN @ |-> DictDel(@[c], conn_id)]]

\* _close_frontend(front, reset)
_close_frontend(s, front, reset) ==
    LET s1 == [Call(s, IF reset THEN "reset" ELSE "close", front, "", "")
                  EXCEPT !.fstate[front] = "closed"]
    IN  IF front \notin DOMAIN s1.frontends THEN Raise(s1, "KeyError")
        ELSE LET conn_id == s1.frontends[front][1]
                 conn == s1.frontends[front][2]
                 s2 == [s1 EXCEPT !.frontends = DictDel(@, front)]
             IN  IF conn \notin DOMAIN s2.record_layers THEN Raise(s2, "KeyError")
                 ELSE IF conn_id \notin DOMAIN s2.record_layers[conn]
                 THEN Raise(s2, "KeyError")
                 ELSE [s2 EXCEPT !.record_layers[conn] = DictDel(@, conn_id)]

\* the loop of _clean_record_layer over the list record_layers[conn].values()
RECURSIVE CloseAll(_, _)
CloseAll(s, fronts) ==
    IF fronts = {} \/ s.exc # "none" THEN s
    ELSE LET f == CHOOSE x \in fronts : \A y \in fronts : x[2] <= y[2]
         IN  CloseAll(_close_frontend(s, f, FALSE), fronts \ {f})

\* _clean_record_layer without "del self.record_layers[conn]"
Mutant_clean_record_layer_keeps_conn(s, conn) ==
    IF conn \notin DOMAIN s.record_layers THEN Raise(s, "KeyError")
    ELSE CloseAll(s, Values(s.record_layers[conn]))

\* _clean_record_layer(conn)
_clean_record_layer(s, conn) ==
    IF conn \notin DOMAIN s.record_layers THEN Raise(s, "KeyError")
    ELSE LET s1 == CloseAll(s, Values(s.record_layers[conn]))
         IN  IF s1.exc # "none" THEN s1
             ELSE [s1 EXCEPT !.record_layers = DictDel(@, conn)]

\* _send_packet(conn, conn_id, control, data); flushed is what send_packet returns
_send_packet(s, conn, conn_id, control, data, flushed) ==
    LET s1 == [Call(s, "send_packet", conn, data,
                    IF flushed THEN "flushed" ELSE "unflushed") EXCEPT
                 !.sent = Append(@, [conn |-> conn, control |-> control,
                                     conn_id |-> conn_id, data |-> data,
                                     flushed |-> flushed])]
    IN  IF ~flushed THEN [s1 EXCEPT !.unfinished = @ \cup {conn}] ELSE s1

\* the DAT branch of _process_packet: conns[conn_id].send(packet);
\* sres is what the frontend's send does: "full", "partial" or "raise"
DeliverData(s, conn, conn_id, data, sres) ==
    IF s.exc # "none" THEN s
    ELSE IF conn_id \notin DOMAIN s.record_layers[conn] THEN Raise(s, "KeyError")
    ELSE LET f == s.record_layers[conn][conn_id]
             s1 == Call(s, "send", f, data, sres)
         IN  IF sres = "raise" THEN Raise(s1, "FrontendError")
             ELSE IF sres = "partial"
             THEN [s1 EXCEPT !.unfinished = @ \cup {f}]
             ELSE s1

\* the FIN branch of _process_packet: self._close_frontend(conns[conn_id])
CloseOnFin(s, conn, conn_id) ==
    IF s.exc # "none" THEN s
    ELSE IF conn_id \notin DOMAIN s.record_layers[conn] THEN Raise(s, "KeyError")
    ELSE _close_frontend(s, s.record_layers[conn][conn_id], FALSE)

\* the registration without "self.frontends[front] = conn_id, conn"
Mutant_Register_forward_only(s, conn, conn_id, front) ==
    [Call(s, "new_frontend", front, "", "") EXCEPT
        !.record_layers[conn] = DictSet(@, conn_id, front),
        !.fstate[front] = "open"]

\* the registration at the end of the SYN branch
Register(s, conn, conn_id, front) ==
    [Call(s, "new_frontend", front, "", "") EXCEPT
        !.record_layers[conn] = DictSet(@, conn_id, front),
        !.frontends = DictSet(@, front, <<conn_id, conn>>),
        !.fstate[front] = "open"]

\* _process_packet with the DAT branch before the SYN branch
Mutant_process_packet_dat_before_syn(s, conn, packet, nf, sres, flushed) ==
    LET control == packet.control
        conn_id == packet.conn_id
        conns == s.record_layers[conn]
    IN  IF "rst" \in control
        THEN IF conn_id \in DOMAIN conns
             THEN _close_frontend(s, conns[conn_id], TRUE)
             ELSE Raise(s, "KeyError")
        ELSE LET d == IF "dat" \in control
                      THEN DeliverData(s, conn, conn_id, packet.data, sres)
                      ELSE s
                 a == IF d.exc = "none" /\ "syn" \in control
                         /\ conn_id \in DOMAIN conns
                      THEN _close_frontend(d, conns[conn_id], FALSE)
                      ELSE d
             IN  IF a.exc # "none" THEN a
                 ELSE IF "syn" \in control /\ nf = Unavailable
                 THEN _send_packet(Call(a, "new_frontend", Unavailable, "", ""),
                                   conn, conn_id, {"rst"}, "", flushed)
                 ELSE LET b == IF "syn" \in control
                               THEN Register(a, conn, conn_id, nf) ELSE a
                      IN  IF "fin" \in control THEN CloseOnFin(b, conn, conn_id) ELSE b

\* _process_packet without the "return" after the RST of an unavailable frontend:
\* "conns[conn_id] = front" then finds front unbound
Mutant_process_packet_no_return(s, conn, packet, nf, sres, flushed) ==
    LET control == packet.control
        conn_id == packet.conn_id
        conns == s.record_layers[conn]
    IN  IF "rst" \in control
        THEN IF conn_id \in DOMAIN conns
             THEN _close_frontend(s, conns[conn_id], TRUE)
             ELSE Raise(s, "KeyError")
        ELSE LET a == IF "syn" \in control /\ conn_id \in DOMAIN conns
                      THEN _close_frontend(s, conns[conn_id], FALSE)
                      ELSE s
             IN  IF a.exc # "none" THEN a
                 ELSE IF "syn" \in control /\ nf = Unavailable
                 THEN Raise(_send_packet(Call(a, "new_frontend", Unavailable, "", ""),
                                         conn, conn_id, {"rst"}, "", flushed),
                            "UnboundLocalError")
                 ELSE LET b == IF "syn" \in control
                               THEN Register(a, conn, conn_id, nf) ELSE a
                          c == IF "dat" \in control
                               THEN DeliverData(b, conn, conn_id, packet.data, sres)
                               ELSE b
                      IN  IF "fin" \in control THEN CloseOnFin(c, conn, conn_id) ELSE c

\* _process_packet(conn, packet); nf is what self.new_frontend() returns (a new
\* frontend object, or Unavailable for FrontendUnavailableError), sres what the
\* frontend's send does, flushed what conn.send_packet returns
_process_packet(s, conn, packet, nf, sres, flushed) ==
    LET control == packet.control
        conn_id == packet.conn_id
        conns == s.record_layers[conn]
    IN  IF "rst" \in control
        THEN IF conn_id \in DOMAIN conns
             THEN _close_frontend(s, conns[conn_id], TRUE)
             ELSE Raise(s, "KeyError")
        ELSE LET a == IF "syn" \in control /\ conn_id \in DOMAIN conns
                      THEN _close_frontend(s, conns[conn_id], FALSE)
                      ELSE s
             IN  IF a.exc # "none" THEN a
                 ELSE IF "syn" \in control /\ nf = Unavailable
                 THEN _send_packet(Call(a, "new_frontend", Unavailable, "", ""),
                                   conn, conn_id, {"rst"}, "", flushed)
                 ELSE LET b == IF "syn" \in control
                               THEN Register(a, conn, conn_id, nf) ELSE a
                          c == IF "dat" \in control
                               THEN DeliverData(b, conn, conn_id, packet.data, sres)
                               ELSE b
                      IN  IF "fin" \in control THEN CloseOnFin(c, conn, conn_id) ELSE c

\* _process_frontend that puts the frontend, not its record layer, in the
\* pending-write set when send_packet reports a partial flush
Mutant_process_frontend_pends_front(s, front, rres, data, flushed) ==
    LET s0 == Call(s, "recv", front, "", rres)
        control == CASE rres = "error" -> {"rst"}
                     [] rres = "data" -> {"dat"}
                     [] rres = "eof" -> {"fin"}
                     [] OTHER -> {}
    IN  IF control = {} THEN s0
        ELSE IF front \notin DOMAIN s0.frontends THEN Raise(s0, "KeyError")
        ELSE LET conn_id == s0.frontends[front][1]
                 conn == s0.frontends[front][2]
                 s1 == _send_packet(s0, conn, conn_id, control,
                                    IF rres = "data" THEN data ELSE "", TRUE)
                 s2 == [s1 EXCEPT
                          !.sent[Len(s1.sent)].flushed = flushed,
                          !.unfinished = IF flushed THEN @ ELSE @ \cup {front}]
             IN  IF "rst" \in control THEN _close_frontend(s2, front, TRUE)
                 ELSE IF "fin" \in control THEN _close_frontend(s2, front, FALSE)
                 ELSE s2

\* _process_frontend that closes on end-of-stream without sending the FIN
Mutant_process_frontend_eof_silent(s, front, rres, data, flushed) ==
    LET s0 == Call(s, "recv", front, "", rres)
        control == CASE rres = "error" -> {"rst"}
                     [] rres = "data" -> {"dat"}
                     [] rres = "eof" -> {"fin"}
                     [] OTHER -> {}
    IN  IF control = {} THEN s0
        ELSE IF front \notin DOMAIN s0.frontends THEN Raise(s0, "KeyError")
        ELSE LET conn_id == s0.frontends[front][1]
                 conn == s0.frontends[front][2]
             IN  IF "fin" \in control THEN _close_frontend(s0, front, FALSE)
                 ELSE LET s1 == _send_packet(s0, conn, conn_id, control,
                                             IF rres = "data" THEN data ELSE "",
                                             flushed)
                      IN  IF "rst" \in control THEN _close_frontend(s1, front, TRUE)
                          ELSE s1

\* _process_frontend(front); rres is what front.recv() does: "data" (bytes),
\* "empty" (b""), "eof" (None) or "error" (an exception)
_process_frontend(s, front, rres, data, flushed) ==
    LET s0 == Call(s, "recv", front, "", rres)
        known == front \in DOMAIN s0.frontends
        control == CASE rres = "error" -> {"rst"}
                     [] rres = "data" -> {"dat"}
                     [] rres = "eof" -> {"fin"}
                     [] OTHER -> {}
    IN  IF control = {} THEN s0
        ELSE IF ~known THEN Raise(s0, "KeyError")
        ELSE LET conn_id == s0.frontends[front][1]
                 conn == s0.frontends[front][2]
                 s1 == _send_packet(s0, conn, conn_id, control,
                                    IF rres = "data" THEN data ELSE "", flushed)
             IN  IF "rst" \in control THEN _close_frontend(s1, front, TRUE)
                 ELSE IF "fin" \in control THEN _close_frontend(s1, front, FALSE)
                 ELSE s1

\* _process_sending without the test of is_finished
Mutant_process_sending_always_removes(s, conn, res) ==
    LET s1 == Call(s, IF IsRecordLayer(conn) THEN "continue_sending" ELSE "send",
                   conn, "", res)
    IN  IF res = "raise" THEN Raise(s1, "SendError")
        ELSE IF conn \in s1.unfinished
        THEN [s1 EXCEPT !.unfinished = @ \ {conn}]
        ELSE Raise(s1, "KeyError")

\* _process_sending(conn); res is what conn.continue_sending() or conn.send()
\* does: "done" (True), "more" (False) or "raise"
_process_sending(s, conn, res) ==
    LET s1 == Call(s, IF IsRecordLayer(conn) THEN "continue_sending" ELSE "send",
                   conn, "", res)
    IN  IF res = "raise" THEN Raise(s1, "SendError")
        ELSE IF res = "done"
        THEN IF conn \in s1.unfinished
             THEN [s1 EXCEPT !.unfinished = @ \ {conn}]
             ELSE Raise(s1, "KeyError")
        ELSE s1

\* _process_backend(); inst is the record layer object made for the accepted
\* connection
_process_backend(s, inst) ==
    [Call(s, "accept", inst, "", "") EXCEPT
        !.record_layers = DictSet(@, inst, EmptyDict),
        !.rlstate[inst] = "live"]

\* conn.backend.close()
BackendClose(s, conn) ==
    IF s.exc # "none" THEN s
    ELSE [Call(s, "backend.close", conn, "", "") EXCEPT !.rlstate[conn] = "closed"]

\* conn.close()
ConnClose(s, conn) ==
    IF s.exc # "none" THEN s ELSE Call(s, "conn.close", conn, "", "")

\* _process_record_layer(conn) when receive_packets does not return packets:
\* how is "critical" (CriticalException) or "eof" (None)
_process_record_layer(s, conn, how) ==
    LET s1 == _clean_record_layer(Call(s, "receive_packets", conn, "", how), conn)
    IN  IF how = "critical" THEN BackendClose(s1, conn)
        ELSE BackendClose(ConnClose(s1, conn), conn)

\* the teardown of run() that stops after the first record layer
Mutant_CleanAll_first_only(s, conns) ==
    IF conns = {} \/ s.exc # "none" THEN s
    ELSE LET c == CHOOSE x \in conns : \A y \in conns : x[2] <= y[2]
         IN  BackendClose(ConnClose(_clean_record_layer(s, c), c), c)

\* the teardown of run() after the loop: for conn in self.record_layers.keys()
RECURSIVE CleanAll(_, _)
CleanAll(s, conns) ==
    IF conns = {} \/ s.exc # "none" THEN s
    ELSE LET c == CHOOSE x \in conns : \A y \in conns : x[2] <= y[2]
         IN  CleanAll(BackendClose(ConnClose(_clean_record_layer(s, c), c), c),
                      conns \ {c})

\* ------------------------------------------------------------ the event loop
Conns == RLs \cup Fronts

Init ==
    /\ record_layers = EmptyDict
    /\ frontends = EmptyDict
    /\ unfinished = {}
    /\ running = TRUE
    /\ pc = "select"
    /\ rq = {}
    /\ wq = {}
    /\ cur = NoConn
    /\ pending = 0
    /\ fstate = [f \in Fronts |-> "unborn"]
    /\ rlstate = [c \in RLs |-> "unborn"]

\* the objects the program still holds a reference to
Referenced(s, r, w, c) ==
    DOMAIN s.record_layers \cup DOMAIN s.frontends \cup s.unfinished
        \cup r \cup w \cup {c}
Live(s) == DOMAIN s.record_layers \cup DOMAIN s.frontends

\* an object not referenced any more can be handed out again as a new object
FreeOf(S) ==
    LET free == S \ Referenced(Cur, rq, wq, cur)
    IN  IF free = {} THEN {} ELSE {CHOOSE x \in free : \A y \in free : x[2] <= y[2]}

\* the lists of _process: rlist and wlist
rlist == {Backend} \cup DOMAIN record_layers \cup DOMAIN frontends
wlist == unfinished

\* select returns the ready objects in the order of rlist (the backend, the
\* record layers, the frontends) and of wlist; among the record layers and among
\* the frontends the dictionaries' order is taken to be the objects' order
Rank(conn) ==
    IF conn = Backend THEN 0
    ELSE IF IsRecordLayer(conn) THEN conn[2] ELSE MaxRL + conn[2]
From(S, x) == {y \in S : Rank(y) >= Rank(x)}
First(S) == CHOOSE x \in S : \A y \in S : Rank(x) <= Rank(y)

\* rq and wq hold the objects of rlist and wlist from the next ready one on:
\* which of them select reported is decided when the loop comes to them
Cuts(r, w) ==
    {<<From(r, x), w>> : x \in r} \cup {<<{}, From(w, y)>> : y \in w} \cup {<<{}, {}>>}

\* the connection of this turn of "for conn in r", then of "for conn in w"
Turn == IF rq # {} THEN First(rq) ELSE First(wq)

\* run() without the try/except around self._process(): an exception ends run
Mutant_Commit_no_except(s, cuts, c, n) ==
    LET failed == s.exc # "none"
    IN  /\ record_layers' = s.record_layers
        /\ frontends' = s.frontends
        /\ unfinished' = s.unfinished
        /\ fstate' = s.fstate
        /\ rlstate' = s.rlstate
        /\ \E cut \in IF failed THEN {<<{}, {}>>} ELSE cuts :
              /\ rq' = cut[1]
              /\ wq' = cut[2]
              /\ cur' = IF failed \/ n = 0 THEN NoConn ELSE c
              /\ pending' = IF failed THEN 0 ELSE n
              /\ pc' = IF failed THEN "done"
                       ELSE IF n > 0 THEN "packets"
                       ELSE IF cut[1] \cup cut[2] = {} THEN "select" ELSE "dispatch"
        /\ UNCHANGED running

\* the state after a handler returned s; cuts are the possible rests of the
\* iteration, c and n the rest of the batch. An exception unwinds to run(),
\* which starts the next iteration.
Commit(s, cuts, c, n) ==
    LET failed == s.exc # "none"
        c2 == IF failed \/ n = 0 THEN NoConn ELSE c
        n2 == IF failed THEN 0 ELSE n
    IN  \E cut \in IF failed THEN {<<{}, {}>>} ELSE cuts :
          LET r2 == cut[1]
              w2 == cut[2]
              refs == Referenced(s, r2, w2, c2)
          IN  /\ Backend \in r2 => RLs \ refs # {}
              /\ record_layers' = s.record_layers
              /\ frontends' = s.frontends
              /\ unfinished' = s.unfinished
              /\ rq' = r2
              /\ wq' = w2
              /\ cur' = c2
              /\ pending' = n2
              /\ pc' = IF n2 > 0 THEN "packets"
                       ELSE IF r2 \cup w2 = {} THEN "select" ELSE "dispatch"
              /\ fstate' = [f \in Fronts |->
                              IF f \in refs THEN s.fstate[f] ELSE "unborn"]
              /\ rlstate' = [x \in RLs |->
                              IF x \in refs THEN s.rlstate[x] ELSE "unborn"]
              /\ UNCHANGED running

\* select.select(rlist, wlist, []) returns with something ready
Select ==
    /\ pc = "select" /\ running
    /\ \E cut \in Cuts(rlist, wlist) \ {<<{}, {}>>} :
        /\ Backend \in cut[1] => FreeOf(RLs) # {}
        /\ rq' = cut[1]
        /\ wq' = cut[2]
        /\ pc' = "dispatch"
        /\ UNCHANGED <<record_layers, frontends, unfinished, running, cur, pending,
                       fstate, rlstate>>

\* select.select is interrupted (EINTR: _process returns), or raises another
\* error on a closed connection left in wlist (caught by run)
SelectFails ==
    /\ pc = "select" /\ running
    /\ \E why \in {"EINTR", "error"} :
        /\ why = "error" => unfinished \ Live(Cur) # {}
        /\ Commit(Cur, {<<{}, {}>>}, NoConn, 0)

\* conn is self.backend
Accept ==
    /\ pc = "dispatch" /\ Turn = Backend
    /\ \E inst \in FreeOf(RLs) :
        Commit(_process_backend(Cur, inst), Cuts(rq \ {Backend}, wq), NoConn, 0)

\* _process_record_layer(conn): receive_packets returns a list of packets,
\* empty (n = 0) or not; how many follow the first is decided packet by packet
ReceivePackets ==
    /\ pc = "dispatch" /\ rq # {} /\ IsRecordLayer(Turn)
    /\ \E n \in {0, 1} :
        Commit(Call(Cur, "receive_packets", Turn, "", "packets"),
               Cuts(rq \ {Turn}, wq), Turn, n)

\* _process_record_layer(conn): receive_packets raises a CriticalException or
\* returns None
TeardownInputs == CriticalKinds \cup {"eof"}
AfterTeardown(why) ==
    _process_record_layer(Cur, Turn, IF why = "eof" THEN "eof" ELSE "critical")
Teardown ==
    /\ pc = "dispatch" /\ rq # {} /\ IsRecordLayer(Turn)
    /\ \E why \in TeardownInputs :
        Commit(AfterTeardown(why), Cuts(rq \ {Turn}, wq), NoConn, 0)

\* what one call of _process_packet meets: the packet, what self.new_frontend()
\* returns (nf), what the frontend's send does (sres), what send_packet returns
\* (flushed). A result that is not asked for is not chosen.
Opens(packet) == "syn" \in packet.control /\ "rst" \notin packet.control
PacketInputs ==
    {i \in [packet : Packets, nf : FreeOf(Fronts) \cup {Unavailable},
            sres : {"full", "partial", "raise"}, flushed : BOOLEAN] :
        /\ ~Opens(i.packet) => i.nf = Unavailable
        /\ ~(Opens(i.packet) /\ i.nf = Unavailable) => i.flushed
        /\ ("dat" \notin i.packet.control \/ "rst" \in i.packet.control
               \/ (Opens(i.packet) /\ i.nf = Unavailable)) => i.sres = "full"}
AfterPacket(i) == _process_packet(Cur, cur, i.packet, i.nf, i.sres, i.flushed)

\* one turn of "for packet in packets: self._process_packet(conn, packet)";
\* more says whether the list holds further packets after this one
ApplyPacket ==
    /\ pc = "packets"
    /\ \E i \in PacketInputs, more \in BOOLEAN :
        Commit(AfterPacket(i), {<<rq, wq>>}, cur, IF more THEN 1 ELSE 0)

\* what one call of _process_frontend meets: what front.recv() does (rres), the
\* bytes it returns (data), what send_packet returns (flushed)
FrontendInputs ==
    {i \in [rres : {"data", "empty", "eof", "error"}, data : Payloads,
            flushed : BOOLEAN] : i.rres = "empty" => i.flushed}
AfterFrontend(i) == _process_frontend(Cur, Turn, i.rres, i.data, i.flushed)

\* _process_frontend(front)
FrontendRead ==
    /\ pc = "dispatch" /\ rq # {} /\ Turn \in Fronts
    /\ \E i \in FrontendInputs :
        Commit(AfterFrontend(i), Cuts(rq \ {Turn}, wq), NoConn, 0)

\* what one call of _process_sending meets: what the retry does; a record layer
\* that is still registered does not raise
SendingInputs ==
    {res \in {"done", "more", "raise"} :
        res = "raise" => (~IsRecordLayer(Turn) \/ Turn \notin DOMAIN record_layers)}
AfterSending(res) == _process_sending(Cur, Turn, res)

\* _process_sending(conn)
Sending ==
    /\ pc = "dispatch" /\ rq = {} /\ wq # {}
    /\ \E res \in SendingInputs :
        Commit(AfterSending(res), Cuts(rq, wq \ {Turn}), NoConn, 0)

\* stop_handler: SIGINT or SIGTERM
Signal ==
    /\ pc # "done" /\ running
    /\ running' = FALSE
    /\ UNCHANGED <<record_layers, frontends, unfinished, pc, rq, wq, cur, pending,
                   fstate, rlstate>>

\* run() after the loop
AfterShutdown ==
    Call(CleanAll(Cur, DOMAIN record_layers), "backend.close", Backend, "", "")
Shutdown ==
    /\ pc = "select" /\ ~running
    /\ LET s == AfterShutdown
       IN  /\ record_layers' = s.record_layers
           /\ frontends' = s.frontends
           /\ unfinished' = s.unfinished
           /\ fstate' = s.fstate
           /\ rlstate' = s.rlstate
    /\ pc' = "done"
    /\ UNCHANGED <<running, rq, wq, cur, pending>>

Next ==
    \/ Select
    \/ SelectFails
    \/ Accept
    \/ ReceivePackets
    \/ Teardown
    \/ ApplyPacket
    \/ FrontendRead
    \/ Sending
    \/ Signal
    \/ Shutdown

Spec == Init /\ [][Next]_vars

\* ------------------------------------------------------------------ claims
\* The claims about a handler are stated on the states in which the handler is
\* called: for every input it can meet there, on the state it returns.

\* the calls of a handler on one object, in order
CallsOn(s, obj) == SelectSeq(s.ops, LAMBDA o : o.obj = obj)
Names(calls) == [k \in 1..Len(calls) |-> calls[k].op]
\* the position of the first call with this name on this object, 0 if none
IndexOf(s, name, obj) ==
    LET at == {k \in 1..Len(s.ops) : s.ops[k].op = name /\ s.ops[k].obj = obj}
    IN  IF at = {} THEN 0 ELSE CHOOSE k \in at : \A j \in at : k <= j

\* no two frontends are registered under one (record layer, id) pair
UniquePair(fe) == \A f, g \in DOMAIN fe : fe[f] = fe[g] => f = g
\* a SYN for an id that is Open
ReusedSyn(i) == Opens(i.packet) /\ i.packet.conn_id \in DOMAIN record_layers[cur]

\* C1: at most one virtual connection is registered under a (record layer, id)
\* pair in every state; a SYN applied to an Open id first calls close() (never
\* reset()) on the prior occupant's frontend and removes it from the registry,
\* and only then makes and registers the new frontend.
C1_OneOccupantPerPair ==
    /\ UniquePair(frontends)
    /\ \A c \in DOMAIN record_layers : \A k \in DOMAIN record_layers[c] :
          /\ record_layers[c][k] \in DOMAIN frontends
          /\ frontends[record_layers[c][k]] = <<k, c>>
    /\ pc = "packets" =>
         \A i \in PacketInputs :
            LET s == AfterPacket(i)
                id == i.packet.conn_id
            IN  /\ UniquePair(s.frontends)
                /\ ReusedSyn(i) =>
                     LET old == record_layers[cur][id]
                     IN  /\ Names(CallsOn(s, old)) = <<"close">>
                         /\ s.ops[1] = Op("close", old, "", "")
                         /\ old \notin DOMAIN s.frontends
                         /\ \A k \in DOMAIN s.record_layers[cur] :
                               s.record_layers[cur][k] # old
                         /\ i.nf # Unavailable =>
                              /\ IndexOf(s, "new_frontend", i.nf) = 2
                              /\ i.nf # old

\* C1 witness: a SYN is applied to an Open id and the new frontend takes the id
C1_Witness ==
    /\ pc = "packets"
    /\ \E i \in PacketInputs :
          /\ ReusedSyn(i) /\ i.packet.control = {"syn"} /\ i.nf # Unavailable
          /\ AfterPacket(i).record_layers[cur][i.packet.conn_id] = i.nf
          /\ record_layers[cur][i.packet.conn_id] \notin DOMAIN AfterPacket(i).frontends

\* C4: a packet with RST and any other flags, applied to an Open id, makes
\* exactly one call, reset() on the id's frontend, and unregisters it; whatever
\* the id's state, it makes no frontend, delivers no payload, sends no packet
\* and changes nothing else.
C4_RstWins ==
    pc = "packets" =>
      \A i \in PacketInputs :
        "rst" \in i.packet.control =>
          LET s == AfterPacket(i)
              id == i.packet.conn_id
          IN  /\ s.sent = <<>>
              /\ s.unfinished = unfinished
              /\ \A k \in 1..Len(s.ops) :
                    s.ops[k].op \notin {"new_frontend", "send", "close"}
              /\ IF id \in DOMAIN record_layers[cur]
                 THEN LET f == record_layers[cur][id]
                      IN  /\ s.ops = <<Op("reset", f, "", "")>>
                          /\ s.exc = "none"
                          /\ s.frontends = DictDel(frontends, f)
                          /\ s.record_layers =
                               [record_layers EXCEPT ![cur] = DictDel(@, id)]
                 ELSE /\ s.ops = <<>>
                      /\ s.frontends = frontends
                      /\ s.record_layers = record_layers

\* C4 witness: RST together with SYN, DAT and FIN is applied to an Open id whose
\* record layer holds another virtual connection
C4_Witness ==
    /\ pc = "packets"
    /\ \E i \in PacketInputs :
          /\ i.packet.control = Flags
          /\ i.packet.conn_id \in DOMAIN record_layers[cur]
          /\ DOMAIN AfterPacket(i).record_layers[cur] # {}
          /\ i.packet.conn_id \notin DOMAIN AfterPacket(i).record_layers[cur]

\* id is Open under record layer c
Registered(s, c, id) ==
    c \in DOMAIN s.record_layers /\ id \in DOMAIN s.record_layers[c]

\* C2: with the frontend factory succeeding, after each packet a virtual
\* connection is registered for the packet's id iff the packet's last
\* open-defining or terminal event is a SYN (a RST or FIN in the packet leaves the
\* id Unopened, a SYN without them leaves it Open, a DAT alone leaves it as it
\* was, the other ids are left as they were); a frontend event never registers
\* one and a record-layer teardown leaves none.
C2_RegisteredIffLastEventSyn ==
    /\ pc = "packets" =>
         \A i \in PacketInputs :
            (Opens(i.packet) => i.nf # Unavailable) =>
              LET s == AfterPacket(i)
                  id == i.packet.conn_id
                  ctl == i.packet.control
              IN  /\ ("rst" \in ctl \/ "fin" \in ctl) => ~Registered(s, cur, id)
                  /\ (Opens(i.packet) /\ "fin" \notin ctl) => Registered(s, cur, id)
                  /\ ctl = {"dat"} =>
                       (Registered(s, cur, id) <=> Registered(Cur, cur, id))
                  /\ \A j \in Ids \ {id} :
                       Registered(s, cur, j) <=> Registered(Cur, cur, j)
    /\ (pc = "dispatch" /\ rq # {} /\ Turn \in Fronts) =>
         \A i \in FrontendInputs : \A c \in RLs, id \in Ids :
            Registered(AfterFrontend(i), c, id) => Registered(Cur, c, id)
    /\ (pc = "dispatch" /\ rq # {} /\ IsRecordLayer(Turn)) =>
         \A why \in TeardownInputs : \A id \in Ids :
            ~Registered(AfterTeardown(why), Turn, id)

\* C3: the pending-write set holds no destroyed connection
C3_NoDestroyedPending == unfinished \subseteq Live(Cur)

\* a frontend error on f, registered under (conn, id), is converted into one
\* outbound RST with empty payload on conn and a local reset-close of f alone
ErrorHandled(s, f, conn, id) ==
    /\ Len(s.sent) = 1
    /\ s.sent[1].conn = conn /\ s.sent[1].control = {"rst"}
    /\ s.sent[1].conn_id = id /\ s.sent[1].data = ""
    /\ IndexOf(s, "reset", f) # 0 /\ IndexOf(s, "close", f) = 0
    /\ f \notin DOMAIN s.frontends
    /\ ~Registered(s, conn, id)
    /\ DOMAIN s.record_layers = DOMAIN record_layers
    /\ \A g \in DOMAIN frontends :
          (g # f /\ frontends[g] # <<id, conn>>) =>
             /\ g \in DOMAIN s.frontends /\ s.frontends[g] = frontends[g]
             /\ Registered(s, frontends[g][2], frontends[g][1])

\* C5: an error raised by recv of an Open virtual connection's frontend, or by
\* its send while an inbound DAT payload is delivered, is handled as in
\* ErrorHandled
C5_FrontendErrorScoped ==
    /\ (pc = "dispatch" /\ rq # {} /\ Turn \in DOMAIN frontends) =>
         \A i \in FrontendInputs :
            i.rres = "error" =>
              ErrorHandled(AfterFrontend(i), Turn, frontends[Turn][2],
                           frontends[Turn][1])
    /\ pc = "packets" =>
         \A i \in PacketInputs :
            LET s == AfterPacket(i)
                failed == {k \in 1..Len(s.ops) :
                             s.ops[k].op = "send" /\ s.ops[k].res = "raise"}
            IN  \A k \in failed :
                   ErrorHandled(s, s.ops[k].obj, cur, i.packet.conn_id)

\* C8: after every handler, a live connection on which the handler made a send
\* attempt (send_packet, a frontend's send, a retry) is in the pending-write set
\* iff the last of these attempts did not report a full flush, and the
\* membership of the other live connections is as it was
PendingMatches(s) ==
    /\ \A k \in 1..Len(s.sent) :
          s.sent[k].conn \in Live(s) =>
             (s.sent[k].conn \in s.unfinished <=> ~s.sent[k].flushed)
    /\ \A k \in 1..Len(s.ops) :
          (s.ops[k].obj \in Live(s) /\ s.ops[k].res \in {"full", "done"}) =>
             s.ops[k].obj \notin s.unfinished
    /\ \A k \in 1..Len(s.ops) :
          (s.ops[k].obj \in Live(s) /\ s.ops[k].res \in {"partial", "more"}) =>
             s.ops[k].obj \in s.unfinished
C8_PendingIffLastSendPartial ==
    /\ pc = "packets" => \A i \in PacketInputs : PendingMatches(AfterPacket(i))
    /\ (pc = "dispatch" /\ rq # {} /\ Turn \in Fronts) =>
         \A i \in FrontendInputs : PendingMatches(AfterFrontend(i))
    /\ (pc = "dispatch" /\ rq = {} /\ wq # {}) =>
         \A res \in SendingInputs : PendingMatches(AfterSending(res))

\* C9: when receive_packets fails or returns end-of-stream, every virtual
\* connection of the record layer gets close() and never reset(), the transport
\* is closed, and the record layer is never again polled, read from or sent on:
\* a closed record layer is in none of select's lists, nor a connection still to
\* be handled in an iteration
C9_TeardownIsFinal ==
    /\ (pc = "dispatch" /\ rq # {} /\ IsRecordLayer(Turn)) =>
         \A why \in TeardownInputs :
            LET s == AfterTeardown(why)
            IN  /\ \A f \in Values(record_layers[Turn]) :
                      Names(CallsOn(s, f)) = <<"close">>
                /\ IndexOf(s, "backend.close", Turn) # 0
                /\ Turn \notin DOMAIN s.record_layers
    /\ \A c \in RLs :
          rlstate[c] = "closed" => c \notin rlist \cup wlist \cup rq \cup wq \cup {cur}

\* no entry of the registry refers to record layer c
NoEntryFor(s, c) ==
    /\ c \notin DOMAIN s.record_layers
    /\ \A f \in DOMAIN s.frontends : s.frontends[f][2] # c

\* C6: after a record layer is torn down (CriticalException, end-of-stream or
\* shutdown) it is no key of record_layers and no entry of frontends names it as
\* owner; this stays so: every owner named in frontends is a registered record
\* layer, and a record layer that is not live is not registered
C6_TeardownLeavesNoEntry ==
    /\ (pc = "dispatch" /\ rq # {} /\ IsRecordLayer(Turn)) =>
         \A why \in TeardownInputs :
            /\ NoEntryFor(AfterTeardown(why), Turn)
            /\ AfterTeardown(why).exc = "none"
    /\ (pc = "select" /\ ~running) =>
         /\ \A c \in RLs : NoEntryFor(AfterShutdown, c)
         /\ AfterShutdown.exc = "none"
    /\ \A f \in DOMAIN frontends : frontends[f][2] \in DOMAIN record_layers
    /\ \A c \in RLs : rlstate[c] # "live" => NoEntryFor(Cur, c)

\* C6 witness: a record layer with two virtual connections is torn down
C6_Witness ==
    /\ pc = "dispatch" /\ rq # {} /\ IsRecordLayer(Turn)
    /\ Cardinality(DOMAIN record_layers[Turn]) = 2
    /\ \E f \in DOMAIN frontends : frontends[f][2] = Turn
    /\ \A why \in TeardownInputs : NoEntryFor(AfterTeardown(why), Turn)

\* C7: a connection is retried only while it is in the pending-write set; a
\* writable notification makes exactly one retry call on it; a retry that reports
\* complete removes it (and only it), a retry that reports incomplete or raises
\* leaves the set as it was; a send that reports incomplete on a connection
\* already in the set leaves the set as it was
C7_PartialWriteIdempotent ==
    /\ wq \subseteq unfinished
    /\ (pc = "dispatch" /\ rq = {} /\ wq # {}) =>
         \A res \in SendingInputs :
            LET s == AfterSending(res)
            IN  /\ Len(s.ops) = 1 /\ s.ops[1].obj = Turn /\ s.sent = <<>>
                /\ res = "done" =>
                     (s.unfinished = unfinished \ {Turn} /\ s.exc = "none")
                /\ res # "done" => s.unfinished = unfinished
    /\ (pc = "dispatch" /\ rq # {} /\ Turn \in DOMAIN frontends) =>
         \A i \in FrontendInputs :
            (~i.flushed /\ frontends[Turn][2] \in unfinished) =>
               AfterFrontend(i).unfinished = unfinished

\* C7 witness: a connection that is pending is retried, and the retry can report
\* complete or incomplete
C7_Witness ==
    /\ pc = "dispatch" /\ rq = {} /\ wq # {}
    /\ Turn \in unfinished /\ Turn \in Live(Cur)
    /\ Turn \notin AfterSending("done").unfinished
    /\ Turn \in AfterSending("more").unfinished

\* C10: when the frontend factory is unavailable for a SYN, exactly one packet
\* is sent, on that record layer: RST, the id, empty payload; the id is not
\* registered afterwards; the handler returns normally, so the loop over the
\* batch goes on; the record layer stays registered and every virtual connection
\* under another id or another record layer stays registered, with no call made
\* on its frontend
C10_UnavailableRejectsSyn ==
    pc = "packets" =>
      \A i \in PacketInputs :
        (Opens(i.packet) /\ i.nf = Unavailable) =>
          LET s == AfterPacket(i)
              id == i.packet.conn_id
          IN  /\ s.sent = <<[conn |-> cur, control |-> {"rst"}, conn_id |-> id,
                             data |-> "", flushed |-> i.flushed]>>
              /\ s.exc = "none"
              /\ ~Registered(s, cur, id)
              /\ DOMAIN s.record_layers = DOMAIN record_layers
              /\ \A c \in DOMAIN record_layers : \A k \in DOMAIN record_layers[c] :
                    <<c, k>> # <<cur, id>> =>
                       /\ Registered(s, c, k)
                       /\ s.record_layers[c][k] = record_layers[c][k]
                       /\ s.frontends[record_layers[c][k]] = <<k, c>>
                       /\ s.fstate[record_layers[c][k]] = "open"
                       /\ CallsOn(s, record_layers[c][k]) = <<>>

\* C10 witness: the factory is unavailable for a SYN on a record layer that holds
\* a virtual connection under another id, and the batch has a further packet
C10_Witness ==
    /\ pc = "packets" /\ pending = 1
    /\ \E i \in PacketInputs :
          /\ Opens(i.packet) /\ i.nf = Unavailable
          /\ \E k \in DOMAIN record_layers[cur] : k # i.packet.conn_id
          /\ Len(AfterPacket(i).sent) = 1
          /\ DOMAIN AfterPacket(i).record_layers[cur] # {}

\* C11: when recv of the frontend of an Open virtual connection returns None,
\* exactly one packet is sent, over the owning record layer, with control FIN
\* only, the connection's id and empty payload; then the frontend gets close()
\* (never reset()), after the packet was sent; afterwards the frontend is in
\* neither registry mapping; nothing is raised
C11_EofSendsFinThenCloses ==
    (pc = "dispatch" /\ rq # {} /\ Turn \in DOMAIN frontends) =>
      \A i \in FrontendInputs :
        i.rres = "eof" =>
          LET s == AfterFrontend(i)
              id == frontends[Turn][1]
              conn == frontends[Turn][2]
          IN  /\ s.sent = <<[conn |-> conn, control |-> {"fin"}, conn_id |-> id,
                             data |-> "", flushed |-> i.flushed]>>
              /\ Names(CallsOn(s, Turn)) = <<"recv", "close">>
              /\ 0 < IndexOf(s, "send_packet", conn)
              /\ IndexOf(s, "send_packet", conn) < IndexOf(s, "close", Turn)
              /\ Turn \notin DOMAIN s.frontends
              /\ ~Registered(s, conn, id)
              /\ conn \in DOMAIN s.record_layers
              /\ s.fstate[Turn] = "closed"
              /\ s.exc = "none"

\* C11 witness: an Open virtual connection whose frontend is readable, with
\* another virtual connection open beside it, and its end-of-stream handled
C11_Witness ==
    /\ pc = "dispatch" /\ rq # {} /\ Turn \in DOMAIN frontends
    /\ Cardinality(DOMAIN frontends) = 2
    /\ \E i \in FrontendInputs :
          /\ i.rres = "eof"
          /\ Len(AfterFrontend(i).sent) = 1
          /\ Cardinality(DOMAIN AfterFrontend(i).frontends) = 1

\* the calls of one name among the calls made
CallsNamed(s, name) == SelectSeq(s.ops, LAMBDA o : o.op = name)

\* the frontend a packet without RST is for: the one the SYN creates, else the
\* one registered under the id (NoConn when there is none)
Target(i) ==
    IF Opens(i.packet) THEN i.nf
    ELSE IF i.packet.conn_id \in DOMAIN record_layers[cur]
    THEN record_layers[cur][i.packet.conn_id]
    ELSE NoConn

\* C12: the flags of a packet without RST are applied in the order SYN, DAT,
\* FIN. With SYN (factory succeeding) the factory is called exactly once; with
\* DAT too, the payload is passed by exactly one send, to the frontend just
\* created and after its creation, and a prior occupant of the id gets close()
\* and nothing else. With DAT and FIN, the frontend is closed only after the
\* send of the payload, and it is closed whenever that send returns.
C12_FlagsInFixedOrder ==
    pc = "packets" =>
      \A i \in PacketInputs :
        LET s == AfterPacket(i)
            ctl == i.packet.control
            id == i.packet.conn_id
            f == Target(i)
            sends == CallsNamed(s, "send")
        IN  ("rst" \notin ctl /\ f \notin {NoConn, Unavailable}) =>
              /\ "syn" \in ctl =>
                   /\ Len(CallsNamed(s, "new_frontend")) = 1
                   /\ IndexOf(s, "new_frontend", f) = 
                        (IF id \in DOMAIN record_layers[cur] THEN 2 ELSE 1)
                   /\ id \in DOMAIN record_layers[cur] =>
                        /\ record_layers[cur][id] # f
                        /\ Names(CallsOn(s, record_layers[cur][id])) = <<"close">>
                        /\ IndexOf(s, "close", record_layers[cur][id]) = 1
              /\ "dat" \in ctl =>
                   /\ sends = <<Op("send", f, i.packet.data, i.sres)>>
                   /\ IndexOf(s, "new_frontend", f) < IndexOf(s, "send", f)
              /\ "dat" \notin ctl => sends = <<>>
              /\ ("dat" \in ctl /\ "fin" \in ctl) =>
                   /\ IndexOf(s, "close", f) > 0 =>
                        IndexOf(s, "send", f) < IndexOf(s, "close", f)
                   /\ i.sres # "raise" =>
                        (IndexOf(s, "close", f) > 0 /\ ~Registered(s, cur, id))
              /\ "fin" \notin ctl => IndexOf(s, "close", f) = 0

\* C12 witness: a packet SYN+DAT+FIN on an id that is Open: the prior occupant
\* is closed, a frontend is created, gets the payload and is closed
C12_Witness ==
    /\ pc = "packets"
    /\ \E i \in PacketInputs :
          /\ i.packet.control = {"syn", "dat", "fin"}
          /\ i.packet.conn_id \in DOMAIN record_layers[cur]
          /\ i.nf \in Fronts /\ i.sres = "full"
          /\ Names(AfterPacket(i).ops) = <<"close", "new_frontend", "send", "close">>

\* the steps of the loop of run(): everything but the signal and the teardown
\* after the loop
LoopStep ==
    \/ Select
    \/ SelectFails
    \/ Accept
    \/ ReceivePackets
    \/ Teardown
    \/ ApplyPacket
    \/ FrontendRead
    \/ Sending

\* C13: no error raised inside an iteration ends the server. The loop is left
\* only from its head and only with self.running false; whatever a handler
\* returns or raises while self.running is true, the loop goes on; and while the
\* loop has not been left there is always a further step for it to take.
C13_ErrorsNeverStopTheLoop ==
    /\ [][/\ pc' = "done" => (pc = "select" /\ ~running)
          /\ (running /\ pc' # pc) => pc' \in {"select", "dispatch", "packets"}
          /\ ~running => ~running']_vars
    /\ [](pc = "done" => ~running)
    /\ []((pc # "done" /\ running) => ENABLED LoopStep)
    /\ []((pc \notin {"done", "select"}) => ENABLED LoopStep)

\* C13 witness: handlers are about to raise while the server runs: a frontend's
\* send in packet dispatch, with a packet of the batch still to come
C13_Witness ==
    /\ pc = "packets" /\ running /\ pending = 1
    /\ \E i \in PacketInputs : AfterPacket(i).exc = "FrontendError"
    /\ \E i \in PacketInputs : AfterPacket(i).exc = "KeyError"

\* a step that moves the loop on after a shutdown request: to the next
\* connection of r or w, to the end of the batch, out of the loop, or out of run()
Advance ==
    /\ ~running /\ pc # "done"
    /\ pc' \in {"select", "dispatch", "packets", "done"}
    /\ rq' \in SUBSET rq
    /\ wq' \in SUBSET wq
    /\ pending' \in {0, 1}
    /\ <<pc', rq', wq', pending'>> # <<pc, rq, wq, pending>>

\* the handlers return, r, w and a batch of packets are finite lists, and run()
\* goes on to its teardown once the loop is left: after a shutdown request the
\* loop keeps moving on
FairSpec == Spec /\ WF_<<pc, rq, wq, pending>>(Advance)

\* the fairness above asks nothing the program cannot do: where Advance is
\* enabled a step of the program is an Advance step (every step outside a
\* batch is one, and a batch can end with any packet)
AdvanceOnly == [][(~running /\ pc # "packets") => Advance]_vars
AdvancePossible ==
    /\ (~running /\ pc \in {"select", "dispatch"}) =>
          ENABLED <<LoopStep \/ Shutdown>>_vars
    /\ (~running /\ pc = "packets") => ENABLED (ApplyPacket /\ pending' = 0)

NoCallAfterClose(s) ==
    \A f \in Fronts :
        LET calls == Names(CallsOn(s, f))
        IN  /\ fstate[f] = "closed" => calls = <<>>
            /\ \A k \in 1..Len(calls) :
                  calls[k] \in {"close", "reset"} => k = Len(calls)

\* C15: no recv, send, close or reset is called on a frontend after close() or
\* reset() was called on it: the connection whose turn it is in "for conn in r"
\* or "for conn in w" is not a closed frontend, and no handler calls anything on
\* a frontend closed before or after closing it itself
C15_NoCallOnDestroyedFrontend ==
    /\ (pc = "dispatch" /\ Turn \in Fronts) => fstate[Turn] = "open"
    /\ pc = "packets" => \A i \in PacketInputs : NoCallAfterClose(AfterPacket(i))
    /\ (pc = "dispatch" /\ rq # {} /\ IsRecordLayer(Turn)) =>
          \A why \in TeardownInputs : NoCallAfterClose(AfterTeardown(why))
    /\ (pc = "select" /\ ~running) => NoCallAfterClose(AfterShutdown)

\* C16: every packet of a batch is applied, in the order of the list: whatever
\* packet is applied, and whatever the state of its id, _process_packet returns
\* to the loop "for packet in packets", which goes on with the next packet
C16_WholeBatchApplied ==
    (pc = "packets" /\ pending = 1) =>
       \A i \in PacketInputs : AfterPacket(i).exc = "none"

\* the same state and no effect: what a no-op leaves
NoOp(s) ==
    /\ s.record_layers = record_layers
    /\ s.frontends = frontends
    /\ s.unfinished = unfinished
    /\ s.fstate = fstate
    /\ s.ops = <<>>
    /\ s.sent = <<>>

\* C17: a packet with DAT, without SYN and RST, for an id that is not Open
\* changes nothing (registry, pending-write set), calls nothing, sends nothing,
\* and raises nothing, so that the iteration goes on
C17_DatOnUnopenedIsNoOp ==
    pc = "packets" =>
       \A i \in PacketInputs :
          (/\ "dat" \in i.packet.control
           /\ "syn" \notin i.packet.control /\ "rst" \notin i.packet.control
           /\ i.packet.conn_id \notin DOMAIN record_layers[cur]) =>
             (NoOp(AfterPacket(i)) /\ AfterPacket(i).exc = "none")

\* C18: between the handlers' calls the two mappings of the registry agree:
\* frontends maps f to <<id, conn>> exactly when conn is a key of record_layers
\* whose id map holds f under id; so no frontend is under two ids or two record
\* layers, and no entry of either mapping lacks its counterpart
C18_MappingsAgree ==
    /\ \A f \in DOMAIN frontends :
          /\ frontends[f][2] \in DOMAIN record_layers
          /\ frontends[f][1] \in DOMAIN record_layers[frontends[f][2]]
          /\ record_layers[frontends[f][2]][frontends[f][1]] = f
    /\ \A c \in DOMAIN record_layers : \A k \in DOMAIN record_layers[c] :
          /\ record_layers[c][k] \in DOMAIN frontends
          /\ frontends[record_layers[c][k]] = <<k, c>>
    /\ \A c, d \in DOMAIN record_layers :
          \A k \in DOMAIN record_layers[c], j \in DOMAIN record_layers[d] :
             record_layers[c][k] = record_layers[d][j] => (c = d /\ k = j)

\* C18 witness: two record layers hold a virtual connection under the same id,
\* in the middle of a batch, with a connection waiting for sending
C18_Witness ==
    /\ Cardinality(DOMAIN record_layers) = 2
    /\ \A c \in DOMAIN record_layers : DOMAIN record_layers[c] = {MaxId}
    /\ Cardinality(DOMAIN frontends) = 2
    /\ pc = "packets" /\ unfinished # {}

\* the control byte of the packet a frontend event causes
ControlOf(rres) ==
    CASE rres = "error" -> {"rst"}
      [] rres = "data" -> {"dat"}
      [] rres = "eof" -> {"fin"}
      [] OTHER -> {}

\* C19: a frontend event (data, end-of-stream, error) on a registered frontend
\* causes exactly one packet, sent over the record layer that owns it, with the
\* id it is registered under (recv returning b"" causes none); send_packet is
\* called on no other record layer; when send_packet reports a partial flush the
\* record layer is added to unfinished, and the frontend is not
C19_FrontendPacketsGoToOwner ==
    (pc = "dispatch" /\ rq # {} /\ Turn \in DOMAIN frontends) =>
      \A i \in FrontendInputs :
        LET s == AfterFrontend(i)
            id == frontends[Turn][1]
            conn == frontends[Turn][2]
        IN  /\ i.rres = "empty" => (s.sent = <<>> /\ s.unfinished = unfinished)
            /\ i.rres # "empty" =>
                 /\ s.sent = <<[conn |-> conn, control |-> ControlOf(i.rres),
                                conn_id |-> id,
                                data |-> IF i.rres = "data" THEN i.data ELSE "",
                                flushed |-> i.flushed]>>
                 /\ \A c \in RLs \ {conn} : CallsOn(s, c) = <<>>
                 /\ Names(CallsOn(s, conn)) = <<"send_packet">>
                 /\ s.unfinished =
                      (IF i.flushed THEN unfinished ELSE unfinished \cup {conn})
                 /\ Turn \in s.unfinished => Turn \in unfinished

\* C19 witness: two record layers own a virtual connection each; the frontend
\* of the second produces data and send_packet reports a partial flush on a
\* record layer that was not waiting for sending
C19_Witness ==
    /\ pc = "dispatch" /\ rq # {} /\ Turn \in DOMAIN frontends
    /\ Cardinality({frontends[f][2] : f \in DOMAIN frontends}) = 2
    /\ frontends[Turn][2] \notin unfinished
    /\ \E i \in FrontendInputs :
          /\ i.rres = "data" /\ ~i.flushed
          /\ frontends[Turn][2] \in AfterFrontend(i).unfinished

\* what s leaves of the record layers other than a: their id maps, the
\* registration and the state of their frontends, with no call on any of them
OthersUntouched(s, a) ==
    \A b \in (DOMAIN record_layers) \ {a} :
        /\ b \in DOMAIN s.record_layers
        /\ s.record_layers[b] = record_layers[b]
        /\ s.rlstate[b] = rlstate[b]
        /\ CallsOn(s, b) = <<>>
        /\ \A k \in DOMAIN record_layers[b] :
              LET f == record_layers[b][k]
              IN  /\ f \in DOMAIN s.frontends
                  /\ s.frontends[f] = <<k, b>>
                  /\ s.fstate[f] = fstate[f]
                  /\ CallsOn(s, f) = <<>>

\* C20: applying a packet received on record layer A, whatever it is, and
\* tearing A down after a CriticalException or end-of-stream, leaves every other
\* record layer B as it was: its id map, the registration of its virtual
\* connections and their frontends, on which nothing is called; also when A and
\* B use the same id
C20_RecordLayersIsolated ==
    /\ pc = "packets" =>
          \A i \in PacketInputs : OthersUntouched(AfterPacket(i), cur)
    /\ (pc = "dispatch" /\ rq # {} /\ IsRecordLayer(Turn)) =>
          \A why \in TeardownInputs : OthersUntouched(AfterTeardown(why), Turn)

\* two record layers hold a virtual connection under the same id
SameIdOnTwo ==
    /\ Cardinality(DOMAIN record_layers) = 2
    /\ Cardinality(DOMAIN frontends) = 2
    /\ \E k \in Ids : \A c \in DOMAIN record_layers : DOMAIN record_layers[c] = {k}

\* C20 witness: two record layers hold a virtual connection under the same id
\* and a packet with RST for that id is applied on one of them, closing its own
C20_Witness ==
    /\ SameIdOnTwo
    /\ pc = "packets"
    /\ \E i \in PacketInputs :
          /\ i.packet.conn_id \in DOMAIN record_layers[cur]
          /\ "rst" \in i.packet.control
          /\ Cardinality(DOMAIN AfterPacket(i).frontends) = 1
====
